---- MODULE Spec2Model ----
\* Model of cortex_analyst_streamlit.py: one Streamlit session whose script is
\* re-run from the top on every UI event.  st.session_state (CONN, messages,
\* active_suggestion) persists between page runs; everything else is per run.
EXTENDS Integers, Sequences, FiniteSets, TLC

\* ---------------------------------------------------------------- bounds
MaxLog == 5          \* longest Turn log explored
MaxConnects == 2     \* connections opened in one session
MaxClicks == 2       \* suggestion activations explored
MaxRows == 2         \* rows of an SQL result set
MaxCols == 2         \* columns of an SQL result set

\* ---------------------------------------------------------------- values
None == "None"
NoIndex == -1        \* display_content's message_index=None

ConnectKeys == {"user", "password", "account", "warehouse", "database", "schema", "role"}
RequestKeys == {"database", "schema", "stage", "file", "host"}
ConfigKeys == ConnectKeys \cup RequestKeys
Section == "snowflake"
FullConfig == ConfigKeys \cup {Section}

\* st.secrets as the set of names present: the section and its keys
Configs ==
  {FullConfig} \cup {FullConfig \ {k} : k \in ConfigKeys} \cup {{}}

TextBlock(t) == [type |-> "text", text |-> t]
SuggestionsBlock(s) == [type |-> "suggestions", suggestions |-> s]
SqlBlock(q) == [type |-> "sql", statement |-> q]

\* message.content lists the analytics API may return
Contents ==
  { <<>>,
    <<TextBlock("t")>>,
    <<TextBlock("t"), SuggestionsBlock(<<"S1", "S2">>)>>,
    <<SqlBlock("q1")>>,
    <<SuggestionsBlock(<<"S1">>), SqlBlock("q1")>>,
    <<SuggestionsBlock(<<"S1">>), SuggestionsBlock(<<"S2">>)>> }

Inputs == {"q"}                    \* texts typed into st.chat_input
RequestIds == {None, "r1"}         \* X-Snowflake-Request-Id header, or absent
Statuses == {200, 304, 500}

\* outcome of requests.post: a transport exception, or a response
HttpOutcomes ==
  {[exc |-> TRUE, status |-> 0, json |-> FALSE, content |-> <<>>, rid |-> None]}
  \cup {[exc |-> FALSE, status |-> s, json |-> FALSE, content |-> <<>>, rid |-> r] :
          s \in Statuses, r \in RequestIds}
  \cup {[exc |-> FALSE, status |-> s, json |-> TRUE, content |-> c, rid |-> r] :
          s \in Statuses, c \in Contents, r \in RequestIds}

\* outcome of pd.read_sql_query: an exception, or a frame of rows x cols
SqlOutcomes ==
  {[ok |-> FALSE, rows |-> 0, cols |-> 0]}
  \cup {[ok |-> TRUE, rows |-> r, cols |-> c] : r \in 0..MaxRows, c \in 1..MaxCols}

\* the outcomes that matter to rendering `content`: one if it runs no SQL
OutcomesFor(content) ==
  IF \E i \in 1..Len(content) : content[i].type = "sql"
  THEN SqlOutcomes
  ELSE {[ok |-> FALSE, rows |-> 0, cols |-> 0]}

NoEvent == [type |-> "none", text |-> "", key |-> <<>>]
NoProc == [phase |-> "none", caller |-> "", prompt |-> "", len0 |-> 0,
           status |-> 0, sent |-> 0, content |-> <<>>, request_id |-> None]
NewRun == [connectTried |-> FALSE, title |-> FALSE, rendered |-> FALSE,
           error |-> FALSE, ended |-> "", dup |-> FALSE, sql |-> <<>>]

VARIABLES
  cfg,                \* st.secrets
  CONN,               \* st.session_state.CONN: 0 for None/unset, else the connection
  initialized,        \* "messages" in st.session_state
  messages,           \* st.session_state.messages
  active_suggestion,  \* st.session_state.active_suggestion
  pc,                 \* position of the script in the current page run
  ev,                 \* the UI event that triggered the current page run
  ri,                 \* loop position of "for message_index, message in enumerate"
  buttons,            \* keys of the suggestion buttons registered in this page run
  chatShown,          \* st.chat_input was rendered in this page run
  proc,               \* the process_message call in progress (or last finished)
  run,                \* what the current page run has done so far; run.sql is
                      \* the frame the display_content call just made rendered
  hist                \* session history: counters of external effects

vars == <<cfg, CONN, initialized, messages, active_suggestion, pc, ev, ri,
          buttons, chatShown, proc, run, hist>>

session == <<cfg, CONN, initialized, messages, active_suggestion>>

\* ---------------------------------------------------------------- helpers
Digit(d) == <<"0", "1", "2", "3", "4", "5", "6", "7", "8", "9">>[d + 1]

RECURSIVE Str(_)
\* str(n) for n >= 0, as the sequence of its decimal digits
Str(n) == IF n < 10 THEN <<Digit(n)>> ELSE Str(n \div 10) \o <<Digit(n % 10)>>

\* f"{message_index}_{suggestion_index}"
ButtonKey(message_index, suggestion_index) ==
  Str(message_index) \o <<"_">> \o Str(suggestion_index)

\* message_index or len(st.session_state.messages)
MessageIndex(message_index, n) ==
  IF message_index = NoIndex \/ message_index = 0 THEN n ELSE message_index

UserTurn(prompt) ==
  [role |-> "user", content |-> <<TextBlock(prompt)>>, request_id |-> None]

AssistantTurn(content, request_id) ==
  [role |-> "assistant", content |-> content, request_id |-> request_id]

\* a slip that tests len(df.columns) where the code tests len(df.index)
SqlViews_ByCols(rows, cols) ==
  IF cols > 1 THEN {"Data", "Line Chart", "Bar Chart"} ELSE {"Data"}

\* the views display_content renders for a frame of rows x cols:
\* if len(df.index) > 1 three tabs, else st.dataframe only
SqlViews(rows, cols) ==
  IF rows > 1 THEN {"Data", "Line Chart", "Bar Chart"} ELSE {"Data"}

\* a slip that lets status 500 through as a success
ReplyOf_Lenient(h) ==
  IF h.exc THEN [content |-> <<>>, request_id |-> None]
  ELSE IF h.status < 501
       THEN IF h.json THEN [content |-> h.content, request_id |-> h.rid]
            ELSE [content |-> <<>>, request_id |-> None]
       ELSE [content |-> <<>>, request_id |-> None]

\* send_message's return value, read through response.get(...) defaults
ReplyOf(h) ==
  IF h.exc THEN [content |-> <<>>, request_id |-> None]
  ELSE IF h.status < 400
       THEN IF h.json THEN [content |-> h.content, request_id |-> h.rid]
            ELSE [content |-> <<>>, request_id |-> None]
       ELSE [content |-> <<>>, request_id |-> None]


\* ---------------------------------------------------------------- display_content
\* state threaded through one display_content call
StartAcc ==
  [keys |-> buttons, active |-> active_suggestion, clicks |-> 0,
   raised |-> FALSE, dup |-> FALSE, sql |-> <<>>, used |-> {}]

\* st.button(suggestion, key=...): a key already registered in this page run
\* raises DuplicateWidgetID; the button returns True in the run its click triggered
Button(suggestion, key, acc) ==
  IF key \in acc.keys
  THEN [acc EXCEPT !.raised = TRUE, !.dup = TRUE]
  ELSE IF ev.type = "click" /\ ev.key = key
       THEN [acc EXCEPT !.keys = @ \cup {key}, !.active = suggestion, !.clicks = @ + 1]
       ELSE [acc EXCEPT !.keys = @ \cup {key}]

\* the suggestion_index the enumerate() of one suggestions block gives its j-th button
SuggestionIndex(j) == j - 1

RECURSIVE RenderButtons(_, _, _, _)
\* for suggestion_index, suggestion in enumerate(item["suggestions"])
RenderButtons(suggestions, j, mi, acc) ==
  IF acc.raised \/ j > Len(suggestions) THEN acc
  ELSE RenderButtons(suggestions, j + 1, mi,
                     Button(suggestions[j], ButtonKey(mi, SuggestionIndex(j)), acc))

\* the "sql" branch: run the statement on the stored connection, pick the views
RenderSql(o, acc) ==
  IF o.ok
  THEN [acc EXCEPT !.used = @ \cup {CONN},
                   !.sql = <<[rows |-> o.rows, cols |-> o.cols,
                              views |-> SqlViews(o.rows, o.cols)]>>]
  ELSE [acc EXCEPT !.used = @ \cup {CONN}, !.raised = TRUE]

RenderItem(item, mi, o, acc) ==
  IF item.type = "text" THEN acc
  ELSE IF item.type = "suggestions" THEN RenderButtons(item.suggestions, 1, mi, acc)
  ELSE IF item.type = "sql" THEN RenderSql(o, acc)
  ELSE acc

RECURSIVE RenderItems(_, _, _, _, _)
\* for item in content; an exception ends the loop
RenderItems(content, i, mi, o, acc) ==
  IF acc.raised \/ i > Len(content) THEN acc
  ELSE RenderItems(content, i + 1, mi, o, RenderItem(content[i], mi, o, acc))

DisplayContent(content, request_id, message_index, o) ==
  RenderItems(content, 1, MessageIndex(message_index, Len(messages)), o, StartAcc)

\* ---------------------------------------------------------------- guards of the script
\* a slip that reconnects on every page run
NeedConnect_Always == TRUE

\* "CONN" not in st.session_state or st.session_state.CONN is None
NeedConnect == CONN = 0

\* a slip that resets the session state on every page run
NeedInit_Always == TRUE

\* "messages" not in st.session_state
NeedInit == ~initialized

\* if st.session_state.active_suggestion:
SuggestionPending == active_suggestion # None

\* a slip that records the prompt twice
AppendUser_Twice(log, prompt) == Append(Append(log, UserTurn(prompt)), UserTurn(prompt))

\* line 61
AppendUser(log, prompt) == Append(log, UserTurn(prompt))

\* a slip that records the reply twice
AppendAssistant_Twice(log, content, request_id) ==
  Append(Append(log, AssistantTurn(content, request_id)),
         AssistantTurn(content, request_id))

\* line 72
AppendAssistant(log, content, request_id) ==
  Append(log, AssistantTurn(content, request_id))

\* ---------------------------------------------------------------- page runs
\* UI events the page of the previous run offers
Events ==
  {NoEvent}
  \cup {[type |-> "input", text |-> t, key |-> <<>>] : t \in {x \in Inputs : chatShown}}
  \cup {[type |-> "click", text |-> "", key |-> k] : k \in buttons}

\* Turns the run triggered by e may append
Need(e) ==
  2 * ((IF e.type = "input" THEN 1 ELSE 0)
       + (IF e.type = "click" \/ SuggestionPending THEN 1 ELSE 0))

EndRun ==
  /\ pc' = "idle"
  /\ ev' = NoEvent
  /\ ri' = 0

\* the framework starts a run of the script for a UI event
StartRun(e) ==
  /\ pc = "idle"
  /\ e \in Events
  /\ Len(messages) + Need(e) <= MaxLog
  /\ e.type = "click" => hist.activations < MaxClicks
  /\ pc' = "secrets"
  /\ ev' = e
  /\ ri' = 0
  /\ buttons' = {}
  /\ chatShown' = FALSE
  /\ proc' = NoProc
  /\ run' = NewRun
  /\ UNCHANGED <<session, hist>>

\* lines 8-12, section present
LoadSecrets ==
  /\ pc = "secrets"
  /\ Section \in cfg
  /\ pc' = "connect"
  /\ UNCHANGED <<session, ev, ri, buttons, chatShown, proc, run, hist>>

\* lines 8-12, KeyError: st.error, st.stop
SecretsMissing ==
  /\ pc = "secrets"
  /\ Section \notin cfg
  /\ EndRun
  /\ run' = [run EXCEPT !.error = TRUE, !.ended = "stop"]
  /\ UNCHANGED <<session, buttons, chatShown, proc, hist>>

\* line 15, connection already stored
ConnectSkip ==
  /\ pc = "connect"
  /\ ~NeedConnect
  /\ pc' = "title"
  /\ UNCHANGED <<session, ev, ri, buttons, chatShown, proc, run, hist>>

\* lines 16-29, a connect argument is missing: KeyError before connect is called
ConnectKeyError ==
  /\ pc = "connect"
  /\ NeedConnect
  /\ ~(ConnectKeys \subseteq cfg)
  /\ EndRun
  /\ run' = [run EXCEPT !.error = TRUE, !.ended = "stop"]
  /\ UNCHANGED <<session, buttons, chatShown, proc, hist>>

\* lines 16-29, snowflake.connector.connect is called
Connect(ok) ==
  /\ pc = "connect"
  /\ NeedConnect
  /\ ConnectKeys \subseteq cfg
  /\ hist.okConnects < MaxConnects
  /\ hist' = [hist EXCEPT !.okConnects = IF ok THEN @ + 1 ELSE @,
                          !.reconnects = IF CONN # 0 THEN @ + 1 ELSE @]
  /\ IF ok
     THEN /\ CONN' = hist.okConnects + 1
          /\ pc' = "title"
          /\ run' = [run EXCEPT !.connectTried = TRUE]
          /\ UNCHANGED <<ev, ri>>
     ELSE /\ CONN' = CONN
          /\ EndRun
          /\ run' = [run EXCEPT !.connectTried = TRUE, !.error = TRUE, !.ended = "stop"]
  /\ UNCHANGED <<cfg, initialized, messages, active_suggestion, buttons, chatShown, proc>>

\* lines 116-117
Title ==
  /\ pc = "title"
  /\ "file" \in cfg
  /\ pc' = "init"
  /\ run' = [run EXCEPT !.title = TRUE]
  /\ UNCHANGED <<session, ev, ri, buttons, chatShown, proc, hist>>

\* lines 116-117, snowflake_config['file'] raises KeyError after the title
TitleKeyError ==
  /\ pc = "title"
  /\ "file" \notin cfg
  /\ EndRun
  /\ run' = [run EXCEPT !.title = TRUE, !.error = TRUE, !.ended = "exception"]
  /\ UNCHANGED <<session, buttons, chatShown, proc, hist>>

\* lines 120-123
InitState ==
  /\ pc = "init"
  /\ IF NeedInit
     THEN /\ messages' = <<>>
          /\ active_suggestion' = None
          /\ initialized' = TRUE
     ELSE UNCHANGED <<messages, active_suggestion, initialized>>
  /\ pc' = "render"
  /\ ri' = 0
  /\ UNCHANGED <<cfg, CONN, ev, buttons, chatShown, proc, run, hist>>


\* lines 126-132, one iteration: re-render Turn ri of the log
RenderTurn(o) ==
  /\ pc = "render"
  /\ ri < Len(messages)
  /\ o \in OutcomesFor(messages[ri + 1].content)
  /\ LET message == messages[ri + 1]
         acc == DisplayContent(message.content, message.request_id, ri, o)
     IN /\ buttons' = acc.keys
        /\ active_suggestion' = acc.active
        /\ hist' = [hist EXCEPT !.activations = @ + acc.clicks,
                                !.connUsed = @ \cup acc.used]
        /\ IF acc.raised
           THEN /\ EndRun
                /\ run' = [run EXCEPT !.rendered = TRUE, !.dup = @ \/ acc.dup,
                                      !.sql = acc.sql, !.error = TRUE,
                                      !.ended = "exception"]
           ELSE /\ ri' = ri + 1
                /\ run' = [run EXCEPT !.rendered = TRUE, !.sql = acc.sql]
                /\ UNCHANGED <<pc, ev>>
  /\ UNCHANGED <<cfg, CONN, initialized, messages, chatShown, proc>>

\* lines 61-65: process_message appends the user Turn and renders it
ProcessStart(prompt, caller) ==
  /\ messages' = AppendUser(messages, prompt)
  /\ proc' = [NoProc EXCEPT !.phase = "begun", !.caller = caller,
                            !.prompt = prompt, !.len0 = Len(messages)]
  /\ pc' = "send"

\* lines 135-136, the run was triggered by a chat submission
ChatInputSubmit ==
  /\ pc = "render"
  /\ ri = Len(messages)
  /\ ev.type = "input"
  /\ chatShown' = TRUE
  /\ ProcessStart(ev.text, "input")
  /\ run' = [run EXCEPT !.sql = <<>>]
  /\ UNCHANGED <<cfg, CONN, initialized, active_suggestion, ev, ri, buttons, hist>>

\* line 135, st.chat_input returns None
ChatInputEmpty ==
  /\ pc = "render"
  /\ ri = Len(messages)
  /\ ev.type # "input"
  /\ chatShown' = TRUE
  /\ pc' = "sugg"
  /\ run' = [run EXCEPT !.sql = <<>>]
  /\ UNCHANGED <<session, ev, ri, buttons, proc, hist>>

\* lines 35-47 and 54-56: building the request raises KeyError, nothing is sent
SendKeyError ==
  /\ pc = "send"
  /\ ~(RequestKeys \subseteq cfg)
  /\ proc' = [proc EXCEPT !.phase = "sent", !.content = <<>>, !.request_id = None]
  /\ run' = [run EXCEPT !.error = TRUE]
  /\ pc' = "display"
  /\ UNCHANGED <<session, ev, ri, buttons, chatShown, hist>>

\* lines 35-56 and 68-70: one requests.post with outcome h
SendMessage(h) ==
  /\ pc = "send"
  /\ RequestKeys \subseteq cfg
  /\ LET reply == ReplyOf(h)
     IN proc' = [proc EXCEPT !.phase = "sent", !.status = h.status, !.sent = @ + 1,
                             !.content = reply.content,
                             !.request_id = reply.request_id]
  /\ run' = [run EXCEPT !.error = @ \/ h.exc \/ h.status >= 400 \/ ~h.json]
  /\ hist' = [hist EXCEPT !.requests = @ + 1, !.connUsed = @ \cup {CONN}]
  /\ pc' = "display"
  /\ UNCHANGED <<session, ev, ri, buttons, chatShown>>

\* line 71: render the reply; an exception leaves process_message and the run
DisplayReply(o) ==
  /\ pc = "display"
  /\ o \in OutcomesFor(proc.content)
  /\ LET acc == DisplayContent(proc.content, proc.request_id, NoIndex, o)
     IN /\ buttons' = acc.keys
        /\ active_suggestion' = acc.active
        /\ IF acc.raised
           THEN /\ EndRun
                /\ proc' = [proc EXCEPT !.phase = "raised"]
                /\ run' = [run EXCEPT !.dup = @ \/ acc.dup, !.sql = acc.sql,
                                      !.error = TRUE, !.ended = "exception"]
                /\ hist' = [hist EXCEPT !.activations = @ + acc.clicks,
                                        !.connUsed = @ \cup acc.used,
                                        !.failedAt = @ \cup {proc.len0 + 1}]
           ELSE /\ pc' = "append"
                /\ proc' = [proc EXCEPT !.phase = "shown"]
                /\ run' = [run EXCEPT !.sql = acc.sql]
                /\ hist' = [hist EXCEPT !.activations = @ + acc.clicks,
                                        !.connUsed = @ \cup acc.used]
                /\ UNCHANGED <<ev, ri>>
  /\ UNCHANGED <<cfg, CONN, initialized, messages, chatShown>>

\* lines 72-74
AppendReply ==
  /\ pc = "append"
  /\ messages' = AppendAssistant(messages, proc.content, proc.request_id)
  /\ proc' = [proc EXCEPT !.phase = "appended"]
  /\ pc' = IF proc.caller = "input" THEN "sugg" ELSE "clear"
  /\ run' = [run EXCEPT !.sql = <<>>]
  /\ UNCHANGED <<cfg, CONN, initialized, active_suggestion, ev, ri, buttons,
                 chatShown, hist>>

\* lines 139-140
HandleSuggestion ==
  /\ pc = "sugg"
  /\ SuggestionPending
  /\ ProcessStart(active_suggestion, "suggestion")
  /\ hist' = [hist EXCEPT !.sugProc = @ + 1]
  /\ UNCHANGED <<cfg, CONN, initialized, active_suggestion, ev, ri, buttons,
                 chatShown, run>>

\* line 139, nothing pending: the script ends
NoSuggestion ==
  /\ pc = "sugg"
  /\ ~SuggestionPending
  /\ EndRun
  /\ run' = [run EXCEPT !.ended = "done"]
  /\ UNCHANGED <<session, buttons, chatShown, proc, hist>>

\* line 141
ClearSuggestion ==
  /\ pc = "clear"
  /\ active_suggestion' = None
  /\ EndRun
  /\ run' = [run EXCEPT !.ended = "done"]
  /\ UNCHANGED <<cfg, CONN, initialized, messages, buttons, chatShown, proc, hist>>

\* ---------------------------------------------------------------- specification
Init ==
  /\ cfg \in Configs
  /\ CONN = 0
  /\ initialized = FALSE
  /\ messages = <<>>
  /\ active_suggestion = None
  /\ pc = "idle"
  /\ ev = NoEvent
  /\ ri = 0
  /\ buttons = {}
  /\ chatShown = FALSE
  /\ proc = NoProc
  /\ run = NewRun
  /\ hist = [okConnects |-> 0, reconnects |-> 0, requests |-> 0, activations |-> 0,
             sugProc |-> 0, failedAt |-> {}, connUsed |-> {}]

Next ==
  \/ \E e \in Events : StartRun(e)
  \/ LoadSecrets
  \/ SecretsMissing
  \/ ConnectSkip
  \/ ConnectKeyError
  \/ \E ok \in BOOLEAN : Connect(ok)
  \/ Title
  \/ TitleKeyError
  \/ InitState
  \/ \E o \in SqlOutcomes : RenderTurn(o)
  \/ ChatInputSubmit
  \/ ChatInputEmpty
  \/ SendKeyError
  \/ \E h \in HttpOutcomes : SendMessage(h)
  \/ \E o \in SqlOutcomes : DisplayReply(o)
  \/ AppendReply
  \/ HandleSuggestion
  \/ NoSuggestion
  \/ ClearSuggestion

Spec == Init /\ [][Next]_vars


\* ---------------------------------------------------------------- properties
IsPrefix(a, b) == Len(a) <= Len(b) /\ SubSeq(b, 1, Len(a)) = a

NumUserTurns == Cardinality({i \in 1..Len(messages) : messages[i].role = "user"})

\* the process_message call has got past send_message
Dispatched == proc.phase \in {"sent", "shown", "appended", "raised"}

\* the button keys display_content gives the suggestions of `content` at index mi
KeysOf(content, mi) ==
  {ButtonKey(mi, SuggestionIndex(j)) :
     j \in UNION {1..Len(content[i].suggestions) :
                    i \in {k \in 1..Len(content) : content[k].type = "suggestions"}}}

\* C1: a process_message call appends exactly one user Turn, then at most one
\* assistant Turn: from its first step on, the log is the log at the call plus
\* the prompt's user Turn, plus one assistant Turn exactly when the call got to
\* its last line; a call that raised while rendering left only the user Turn.
C1_OneUserAtMostOneAssistant ==
  proc.phase # "none" =>
    /\ Len(messages) >= proc.len0 + 1
    /\ messages[proc.len0 + 1] = UserTurn(proc.prompt)
    /\ IF proc.phase = "appended"
       THEN /\ Len(messages) = proc.len0 + 2
            /\ messages[proc.len0 + 2].role = "assistant"
       ELSE Len(messages) = proc.len0 + 1

C1_Witness ==
  /\ proc.phase = "raised"
  /\ proc.content # <<>>
  /\ Len(messages) = proc.len0 + 1
  /\ proc.len0 >= 2

\* C2 as stated: after any non-2xx status the call appends an assistant Turn
\* with empty content and no request id, and the log has grown by two.
C2_NonSuccessStatusEmptyTurn ==
  (Dispatched /\ proc.sent = 1 /\ proc.status # 0
     /\ ~(proc.status >= 200 /\ proc.status < 300)) =>
    /\ proc.phase # "raised"
    /\ proc.phase = "appended" =>
         /\ Len(messages) = proc.len0 + 2
         /\ messages[Len(messages)] = AssistantTurn(<<>>, None)

\* C2 amended: after a status >= 400 the call appends an assistant Turn with
\* empty content and no request id, and the log has grown by two.
C2_ErrorStatusEmptyTurn ==
  (Dispatched /\ proc.sent = 1 /\ proc.status >= 400) =>
    /\ proc.phase # "raised"
    /\ proc.content = <<>> /\ proc.request_id = None
    /\ proc.phase = "appended" =>
         /\ Len(messages) = proc.len0 + 2
         /\ messages[Len(messages)] = AssistantTurn(<<>>, None)

C2_Witness ==
  /\ proc.phase = "appended"
  /\ proc.status >= 400
  /\ Len(messages) = proc.len0 + 2

\* C3: a selected suggestion is processed exactly once: process_message is
\* never called for a suggestion more often than suggestions were selected,
\* and once the call for a suggestion is over (returned or raised) and the page
\* run has ended, no suggestion is pending.
C3_SuggestionSingleShot ==
  /\ hist.sugProc <= hist.activations
  /\ (pc = "idle" /\ proc.caller = "suggestion") => active_suggestion = None

\* C4: with a configuration key missing, the run does nothing but halt with an
\* error: no connect call, no title, no transcript, no request.
C4_MissingKeyHalts ==
  (ConfigKeys \ cfg # {}) =>
    /\ ~run.connectTried
    /\ ~run.title
    /\ ~run.rendered
    /\ hist.requests = 0
    /\ pc \in {"idle", "secrets", "connect"}
    /\ run.ended # "" => (run.ended = "stop" /\ run.error)

\* C5: the session opens at most one connection: connect is never called while
\* a connection is stored, the stored connection never changes, and every SQL
\* execution and token read used the stored connection.
C5_ConnectOnce ==
  /\ hist.okConnects <= 1
  /\ hist.reconnects = 0
  /\ CONN # 0 => CONN = 1
  /\ hist.connUsed \subseteq {CONN} \ {0}

C5_Witness ==
  /\ CONN # 0
  /\ ~run.connectTried
  /\ run.sql # <<>>
  /\ proc.phase = "shown"
  /\ proc.sent = 1
  /\ proc.len0 >= 2
  /\ hist.connUsed = {CONN}

\* C6: an executed SQL block with N rows is shown as three views (Data, Line
\* Chart, Bar Chart) when N > 1 and as the table alone when N <= 1, whatever
\* the number of columns.
C6_ViewsByRowCount ==
  run.sql # <<>> =>
    LET df == run.sql[1]
    IN /\ df.rows > 1 => df.views = {"Data", "Line Chart", "Bar Chart"}
       /\ df.rows <= 1 => df.views = {"Data"}

C6_Witness ==
  /\ run.sql # <<>>
  /\ run.sql[1].rows = 2
  /\ run.sql[1].cols = 1
  /\ Cardinality(run.sql[1].views) = 3

\* C7: every process_message call sends exactly one request, and between page
\* runs the number of requests sent equals the number of user Turns.
C7_OneRequestPerMessage ==
  /\ Dispatched => proc.sent = 1
  /\ pc = "idle" => hist.requests = NumUserTurns

\* C8: the log is append-only: every step leaves the old log a prefix of the new.
C8_AppendOnly == [][IsPrefix(messages, messages')]_vars

C8_Witness ==
  /\ pc = "render"
  /\ Len(messages) >= 3
  /\ hist.failedAt # {}
  /\ hist.activations > 0

\* C9: within a page run no button key is registered twice, and the keys a
\* logged Turn's suggestions get on re-render are those of their first render.
C9_UniqueButtonKeys ==
  /\ ~run.dup
  /\ \A i \in 1..Len(messages) :
       KeysOf(messages[i].content, MessageIndex(i - 1, Len(messages)))
         = KeysOf(messages[i].content, i - 1)

====
